---- MODULE Spec2Model ----
(***************************************************************************)
(* Model of nhm_crowdin_parser (src/src/main.rs): the forward export of a  *)
(* canonical translations.json into per-language tr_<code>.json files and  *)
(* the reverse import of such a directory into a canonical file.           *)
(*                                                                         *)
(* Strings are sequences of code points, so that formatting (key_str, the  *)
(* tr_<code>.json file name), parsing (lang_key) and the String ordering   *)
(* used by sort_by and BTreeMap are computed, not assumed.                 *)
(***************************************************************************)
EXTENDS Integers, Sequences, FiniteSets, TLC

VARIABLES input, pc, outcome, langs, sentences, cap, sink, out,
          toRead, langFiles, save, reverse, runs, firstSink,
          kn, ki, kkeys

vars == <<input, pc, outcome, langs, sentences, cap, sink, out,
          toRead, langFiles, save, reverse, runs, firstSink,
          kn, ki, kkeys>>

\* ------------------------------------------------------------------------
\* Bounds of the model
\* ------------------------------------------------------------------------
MaxEntries == 2

MaxKeys == 2

MaxN == 15

\* ------------------------------------------------------------------------
\* String literals of the program, as code point sequences
\* ------------------------------------------------------------------------
Empty == <<>>

en == <<101, 110>>

fr == <<102, 114>>

ru == <<114, 117>>

es == <<101, 115>>

pt == <<112, 116>>

bg == <<98, 103>>

it == <<105, 116>>

pl == <<112, 108>>

zh_cn == <<122, 104, 95, 99, 110>>

ro == <<114, 111>>

tr_tr == <<116, 114, 95, 116, 114>>

TrPrefix == <<116, 114, 95>>

JsonSuffix == <<46, 106, 115, 111, 110>>

KeyPrefix == <<107, 95>>

Zero == 48

\* ------------------------------------------------------------------------
\* String primitives of the standard library
\* ------------------------------------------------------------------------
Max(a, b) == IF a >= b THEN a ELSE b

StartsWith(s, p) ==
    /\ Len(p) <= Len(s)
    /\ SubSeq(s, 1, Len(p)) = p

EndsWith(s, p) ==
    /\ Len(p) <= Len(s)
    /\ SubSeq(s, Len(s) - Len(p) + 1, Len(s)) = p

\* str::replace(from, ""): removes every non-overlapping match, left to right
RECURSIVE Remove(_, _)
Remove(s, from) ==
    IF Len(s) = 0 THEN <<>>
    ELSE IF StartsWith(s, from)
         THEN Remove(SubSeq(s, Len(from) + 1, Len(s)), from)
         ELSE <<Head(s)>> \o Remove(Tail(s), from)

\* Ord for String: lexicographic on code points, a proper prefix sorts first
RECURSIVE StrLess(_, _)
StrLess(a, b) ==
    IF Len(b) = 0 THEN FALSE
    ELSE IF Len(a) = 0 THEN TRUE
    ELSE IF Head(a) # Head(b) THEN Head(a) < Head(b)
    ELSE StrLess(Tail(a), Tail(b))

\* usize::to_string: the decimal digits, no padding
RECURSIVE to_string(_)
to_string(n) ==
    IF n < 10 THEN <<Zero + n>>
    ELSE to_string(n \div 10) \o <<Zero + (n % 10)>>

\* ------------------------------------------------------------------------
\* Key codec
\* ------------------------------------------------------------------------
Zeros(k) == [j \in 1..k |-> Zero]

KeyStrUnpadded(i, max) == KeyPrefix \o to_string(i)

key_str(i, max) ==
    LET d1 == Len(to_string(i))
        d2 == Len(to_string(max))
    IN  KeyPrefix \o Zeros(d2 - d1) \o to_string(i)

\* Vec::capacity() after collecting n items from the map's iterator: nothing
\* is allocated for none; otherwise the allocation is either exact or the
\* smallest non-zero one the standard library makes (4 elements).
Capacities(n) == IF n = 0 THEN {0} ELSE {n, Max(4, n)}

\* ------------------------------------------------------------------------
\* Data of the model
\* ------------------------------------------------------------------------
LangCodes == {en, fr, tr_tr}

SentencePool == <<(<<97>>), (<<98>>), (<<99>>), (<<100>>)>>

SentenceKeys == {SentencePool[j] : j \in 1..MaxEntries}

Texts == {Empty, <<97>>}

\* HashMap<String, String>: a partial map from language code to text (the
\* empty text is tried for en and fr only, which keeps the input set small)
EntryMaps ==
    {m \in UNION {[D -> Texts] : D \in SUBSET LangCodes} :
        tr_tr \in DOMAIN m => m[tr_tr] # Empty}

TranslationMaps == UNION {[K -> EntryMaps] : K \in SUBSET SentenceKeys}

\* struct TranslationFile; only the keys of Languages are ever read
TranslationFile == [languages : SUBSET LangCodes, translations : TranslationMaps]

NoInput == [languages |-> {}, translations |-> <<>>]

EmptyDir == <<>>

NoCanonical == [exists |-> FALSE, valid |-> FALSE, languages |-> <<>>, translations |-> <<>>]

\* BTreeMap::insert / HashMap::insert: a later value replaces an earlier one
MapInsert(m, k, v) == [x \in DOMAIN m \cup {k} |-> IF x = k THEN v ELSE m[x]]

\* ------------------------------------------------------------------------
\* TranslationFile::consume
\* ------------------------------------------------------------------------
\* the closure of the map(): entry("en").or_insert_with(|| en_sentence)
WithBase(en_sentence, translations) ==
    IF en \in DOMAIN translations THEN translations
    ELSE MapInsert(translations, en, en_sentence)

\* the orders in which HashMap::into_iter may enumerate the keys K
Enumerations(K) ==
    {p \in [1..Cardinality(K) -> K] : \A x, y \in 1..Cardinality(K) : p[x] = p[y] => x = y}

\* slice::sort_by is stable: an element goes after every element not greater
RECURSIVE InsertSorted(_, _)
InsertSorted(sorted, e) ==
    IF Len(sorted) = 0 THEN <<e>>
    ELSE IF StrLess(e[en], sorted[Len(sorted)][en])
         THEN InsertSorted(SubSeq(sorted, 1, Len(sorted) - 1), e) \o <<sorted[Len(sorted)]>>
         ELSE sorted \o <<e>>

RECURSIVE SortByEn(_)
SortByEn(v) ==
    IF Len(v) = 0 THEN <<>>
    ELSE InsertSorted(SortByEn(SubSeq(v, 1, Len(v) - 1)), v[Len(v)])

consume(file, order) ==
    SortByEn([j \in 1..Len(order) |-> WithBase(order[j], file.translations[order[j]])])

\* ------------------------------------------------------------------------
\* nhm_translations_to_crowdin
\* ------------------------------------------------------------------------
FileName(lang) == TrPrefix \o lang \o JsonSuffix

SentenceText(sentence, lang) ==
    IF lang \in DOMAIN sentence THEN sentence[lang] ELSE Empty

\* a loop that would write no key where the sentence lacks the language
RECURSIVE CrowdinMapSkipAbsent(_, _, _, _)
CrowdinMapSkipAbsent(snts, lang, max, upto) ==
    IF upto = 0 THEN <<>>
    ELSE IF lang \in DOMAIN snts[upto]
         THEN MapInsert(CrowdinMapSkipAbsent(snts, lang, max, upto - 1),
                        key_str(upto - 1, max), snts[upto][lang])
         ELSE CrowdinMapSkipAbsent(snts, lang, max, upto - 1)

\* the loop of create_lang_file over sentences.iter().enumerate()
RECURSIVE CrowdinMap(_, _, _, _)
CrowdinMap(snts, lang, max, upto) ==
    IF upto = 0 THEN <<>>
    ELSE MapInsert(CrowdinMap(snts, lang, max, upto - 1),
                   key_str(upto - 1, max), SentenceText(snts[upto], lang))

ValidFile(kv) == [valid |-> TRUE, kv |-> kv]

TruncatedFile == [valid |-> FALSE, kv |-> <<>>]

ReadTranslationsJson ==
    /\ pc = "fwd_read"
    /\ \E order \in Enumerations(DOMAIN input.translations) :
         \E c \in Capacities(Len(order)) :
            /\ sentences' = consume(input, order)
            /\ cap' = c
    /\ langs' = input.languages
    /\ pc' = "fwd_langs"
    /\ UNCHANGED <<input, outcome, sink, out, toRead, langFiles, save, reverse,
                   runs, firstSink, kn, ki, kkeys>>

ReadTranslationsJsonFails ==
    /\ pc = "fwd_read"
    /\ outcome' \in {"io_error", "parse_error"}
    /\ pc' = "exit"
    /\ UNCHANGED <<input, langs, sentences, cap, sink, out, toRead, langFiles, save,
                   reverse, runs, firstSink, kn, ki, kkeys>>

CreateLangFile ==
    /\ pc = "fwd_langs"
    /\ \E lang \in langs :
         /\ sink' = MapInsert(sink, FileName(lang),
                              ValidFile(CrowdinMap(sentences, lang, cap, Len(sentences))))
         /\ langs' = langs \ {lang}
    /\ UNCHANGED <<input, pc, outcome, sentences, cap, out, toRead, langFiles, save,
                   reverse, runs, firstSink, kn, ki, kkeys>>

\* create_dir_all or File::create fails: nothing new on the sink
CreateLangFileFailsEarly ==
    /\ pc = "fwd_langs"
    /\ langs # {}
    /\ outcome' = "io_error"
    /\ pc' = "exit"
    /\ UNCHANGED <<input, langs, sentences, cap, sink, out, toRead, langFiles, save,
                   reverse, runs, firstSink, kn, ki, kkeys>>

\* write_all or sync_all fails after File::create made (truncated) the file
CreateLangFileFailsLate ==
    /\ pc = "fwd_langs"
    /\ \E lang \in langs : sink' = MapInsert(sink, FileName(lang), TruncatedFile)
    /\ outcome' = "io_error"
    /\ pc' = "exit"
    /\ UNCHANGED <<input, langs, sentences, cap, out, toRead, langFiles, save,
                   reverse, runs, firstSink, kn, ki, kkeys>>

ExportDone ==
    /\ pc = "fwd_langs"
    /\ langs = {}
    /\ outcome' = "ok"
    /\ pc' = "exit"
    /\ UNCHANGED <<input, langs, sentences, cap, sink, out, toRead, langFiles, save,
                   reverse, runs, firstSink, kn, ki, kkeys>>

\* main, run again on the same input with a fresh output directory
Rerun ==
    /\ pc = "exit"
    /\ ~reverse
    /\ outcome = "ok"
    /\ runs = 1
    /\ firstSink' = sink
    /\ sink' = EmptyDir
    /\ runs' = 2
    /\ pc' = "fwd_read"
    /\ outcome' = "running"
    /\ langs' = {}
    /\ sentences' = <<>>
    /\ cap' = 0
    /\ UNCHANGED <<input, out, toRead, langFiles, save, reverse, kn, ki, kkeys>>

\* main with --reverse, run on the directory the export has just written
RunReverse ==
    /\ pc = "exit"
    /\ ~reverse
    /\ outcome = "ok"
    /\ runs = 1
    /\ reverse' = TRUE
    /\ pc' = "rev_read_dir"
    /\ outcome' = "running"
    /\ UNCHANGED <<input, langs, sentences, cap, sink, out, toRead, langFiles, save,
                   runs, firstSink, kn, ki, kkeys>>

\* ------------------------------------------------------------------------
\* crowdin_to_nhm_translations
\* ------------------------------------------------------------------------
is_lang_file(f) == StartsWith(f, TrPrefix) /\ EndsWith(f, JsonSuffix)

lang_key(f) == Remove(Remove(f, TrPrefix), JsonSuffix)

ToLanguageSuffixed(lang) ==
    IF lang = en THEN "English (Unofficial)" ELSE "LANG_STUB"

\* the display names are spelled in ASCII letters here; only their equality matters
to_language(lang) ==
    CASE lang = en -> "English"
      [] lang = ru -> "Russkiy (Unofficial)"
      [] lang = es -> "Espanol (Unofficial)"
      [] lang = pt -> "Portugues (Unofficial)"
      [] lang = bg -> "Balgarski (Unofficial)"
      [] lang = it -> "Italiano (Unofficial)"
      [] lang = pl -> "Polski (Unofficial)"
      [] lang = zh_cn -> "Jianti Zhongwen (Unofficial)"
      [] lang = ro -> "Romana (Unofficial)"
      [] OTHER -> "LANG_STUB"

\* BTreeMap::keys(): the keys in ascending String order
RECURSIVE SortedKeys(_)
SortedKeys(S) ==
    IF S = {} THEN <<>>
    ELSE LET least == CHOOSE x \in S : \A y \in S \ {x} : StrLess(x, y)
         IN  <<least>> \o SortedKeys(S \ {least})

\* the inner loop over langs.keys(): the non-empty words found at key
WordTranslationsKeepEmpty(others, key) ==
    LET with == {l \in DOMAIN others : key \in DOMAIN others[l]}
    IN  [l \in with |-> others[l][key]]

WordTranslations(others, key) ==
    LET with == {l \in DOMAIN others : key \in DOMAIN others[l] /\ others[l][key] # Empty}
    IN  [l \in with |-> others[l][key]]

\* a loop that would keep what an earlier key attached to the same word
RECURSIVE TranslationsLoopMerge(_, _, _, _)
TranslationsLoopMerge(keys, enWords, others, upto) ==
    IF upto = 0 THEN <<>>
    ELSE LET before == TranslationsLoopMerge(keys, enWords, others, upto - 1)
             word   == enWords[keys[upto]]
             found  == WordTranslations(others, keys[upto])
             kept   == IF word \in DOMAIN before THEN before[word] ELSE <<>>
         IN  MapInsert(before, word,
                       [l \in DOMAIN kept \cup DOMAIN found |->
                           IF l \in DOMAIN found THEN found[l] ELSE kept[l]])

\* the outer loop over en.keys(): insert(en_word, BTreeMap::new()), then fill
RECURSIVE TranslationsLoop(_, _, _, _)
TranslationsLoop(keys, enWords, others, upto) ==
    IF upto = 0 THEN <<>>
    ELSE MapInsert(TranslationsLoop(keys, enWords, others, upto - 1),
                   enWords[keys[upto]], WordTranslations(others, keys[upto]))

Translations(lf) ==
    LET enWords == lf[en]
        others  == [l \in DOMAIN lf \ {en} |-> lf[l]]
        keys    == SortedKeys(DOMAIN enWords)
    IN  TranslationsLoop(keys, enWords, others, Len(keys))

Languages(lf) == [l \in DOMAIN lf |-> to_language(l)]

ReadDir ==
    /\ pc = "rev_read_dir"
    /\ toRead' = {f \in DOMAIN sink : is_lang_file(f)}
    /\ langFiles' = <<>>
    /\ pc' = "rev_files"
    /\ UNCHANGED <<input, outcome, langs, sentences, cap, sink, out, save, reverse,
                   runs, firstSink, kn, ki, kkeys>>

ReadDirFails ==
    /\ pc = "rev_read_dir"
    /\ outcome' = "io_error"
    /\ pc' = "exit"
    /\ UNCHANGED <<input, langs, sentences, cap, sink, out, toRead, langFiles, save,
                   reverse, runs, firstSink, kn, ki, kkeys>>

ReadCrowdinTranslationsJson ==
    /\ pc = "rev_files"
    /\ \E f \in toRead :
         /\ sink[f].valid
         /\ langFiles' = MapInsert(langFiles, lang_key(f), sink[f].kv)
         /\ toRead' = toRead \ {f}
    /\ UNCHANGED <<input, pc, outcome, langs, sentences, cap, sink, out, save, reverse,
                   runs, firstSink, kn, ki, kkeys>>

\* File::open may fail for any file, serde_json fails on a malformed one
ReadCrowdinTranslationsJsonFails ==
    /\ pc = "rev_files"
    /\ \E f \in toRead :
         outcome' \in {"io_error"} \cup (IF sink[f].valid THEN {} ELSE {"parse_error"})
    /\ pc' = "exit"
    /\ UNCHANGED <<input, langs, sentences, cap, sink, out, toRead, langFiles, save,
                   reverse, runs, firstSink, kn, ki, kkeys>>

Assemble ==
    /\ pc = "rev_files"
    /\ toRead = {}
    /\ en \in DOMAIN langFiles
    /\ save' = [languages |-> Languages(langFiles), translations |-> Translations(langFiles)]
    /\ pc' = "rev_save"
    /\ UNCHANGED <<input, outcome, langs, sentences, cap, sink, out, toRead, langFiles,
                   reverse, runs, firstSink, kn, ki, kkeys>>

\* langs.remove_entry("en").unwrap() on None
AssemblePanics ==
    /\ pc = "rev_files"
    /\ toRead = {}
    /\ en \notin DOMAIN langFiles
    /\ outcome' = "panic"
    /\ pc' = "exit"
    /\ UNCHANGED <<input, langs, sentences, cap, sink, out, toRead, langFiles, save,
                   reverse, runs, firstSink, kn, ki, kkeys>>

SaveFile ==
    /\ pc = "rev_save"
    /\ out' = [exists |-> TRUE, valid |-> TRUE,
               languages |-> save.languages, translations |-> save.translations]
    /\ outcome' = "ok"
    /\ pc' = "exit"
    /\ UNCHANGED <<input, langs, sentences, cap, sink, toRead, langFiles, save,
                   reverse, runs, firstSink, kn, ki, kkeys>>

\* File::create fails: the output path is untouched
SaveFileFailsEarly ==
    /\ pc = "rev_save"
    /\ outcome' = "io_error"
    /\ pc' = "exit"
    /\ UNCHANGED <<input, langs, sentences, cap, sink, out, toRead, langFiles, save,
                   reverse, runs, firstSink, kn, ki, kkeys>>

\* write_all or sync_all fails after File::create made (truncated) the file
SaveFileFailsLate ==
    /\ pc = "rev_save"
    /\ out' = [exists |-> TRUE, valid |-> FALSE, languages |-> <<>>, translations |-> <<>>]
    /\ outcome' = "io_error"
    /\ pc' = "exit"
    /\ UNCHANGED <<input, langs, sentences, cap, sink, toRead, langFiles, save,
                   reverse, runs, firstSink, kn, ki, kkeys>>

\* ------------------------------------------------------------------------
\* The key loop of create_lang_file alone, for any number of entries
\* ------------------------------------------------------------------------
KeyStep ==
    /\ pc = "keys"
    /\ ki < kn
    /\ kkeys' = Append(kkeys, key_str(ki, cap))
    /\ ki' = ki + 1
    /\ UNCHANGED <<input, pc, outcome, langs, sentences, cap, sink, out, toRead,
                   langFiles, save, reverse, runs, firstSink, kn>>

\* ------------------------------------------------------------------------
\* Directories given to the reverse import
\* ------------------------------------------------------------------------
Hello == <<72, 101, 108, 108, 111>>

World == <<87, 111, 114, 108, 100>>

Bonjour == <<66, 111, 110, 106, 111, 117, 114>>

NotesTxt == <<110, 46, 116, 120, 116>>

ImportTexts == {Empty, Hello, World, Bonjour}

ImportKeys == {key_str(j, MaxKeys - 1) : j \in 0..(MaxKeys - 1)}

ImportFiles ==
    {TruncatedFile} \cup {ValidFile(kv) : kv \in UNION {[D -> ImportTexts] : D \in SUBSET ImportKeys}}

\* tr_en.json and tr_fr.json, each absent, malformed or a map, and possibly a
\* file that is no language file
ImportDirs ==
    LET LangDirs == UNION {[N -> ImportFiles] : N \in SUBSET {FileName(en), FileName(fr)}}
    IN  LangDirs \cup {MapInsert(d, NotesTxt, TruncatedFile) : d \in LangDirs}

\* ------------------------------------------------------------------------
\* Specifications
\* ------------------------------------------------------------------------
Idle ==
    /\ outcome = "running"
    /\ langs = {}
    /\ sentences = <<>>
    /\ cap = 0
    /\ out = NoCanonical
    /\ toRead = {}
    /\ langFiles = <<>>
    /\ save = [languages |-> <<>>, translations |-> <<>>]
    /\ firstSink = EmptyDir
    /\ kn = 0
    /\ ki = 0
    /\ kkeys = <<>>

\* main without --reverse on a canonical file, the output directory empty;
\* runs counts the exports started
InitExport ==
    /\ input \in TranslationFile
    /\ reverse = FALSE
    /\ pc = "fwd_read"
    /\ sink = EmptyDir
    /\ runs = 1
    /\ Idle

\* main with --reverse on a directory
InitImport ==
    /\ input = NoInput
    /\ reverse = TRUE
    /\ pc = "rev_read_dir"
    /\ sink \in ImportDirs
    /\ runs = 0
    /\ Idle

Init == InitExport \/ InitImport

InitKeys ==
    /\ input = NoInput
    /\ reverse = FALSE
    /\ pc = "keys"
    /\ sink = EmptyDir
    /\ outcome = "running"
    /\ langs = {}
    /\ sentences = <<>>
    /\ out = NoCanonical
    /\ toRead = {}
    /\ langFiles = <<>>
    /\ save = [languages |-> <<>>, translations |-> <<>>]
    /\ runs = 0
    /\ firstSink = EmptyDir
    /\ kn \in 0..MaxN
    /\ cap \in Capacities(kn)
    /\ ki = 0
    /\ kkeys = <<>>

NextExport ==
    \/ ReadTranslationsJson
    \/ ReadTranslationsJsonFails
    \/ CreateLangFile
    \/ CreateLangFileFailsEarly
    \/ CreateLangFileFailsLate
    \/ ExportDone

NextImport ==
    \/ ReadDir
    \/ ReadDirFails
    \/ ReadCrowdinTranslationsJson
    \/ ReadCrowdinTranslationsJsonFails
    \/ Assemble
    \/ AssemblePanics
    \/ SaveFile
    \/ SaveFileFailsEarly
    \/ SaveFileFailsLate

\* an export, then possibly the import of what it wrote; or an import alone
Next ==
    \/ NextExport
    \/ RunReverse
    \/ NextImport

\* an export, then possibly the same export again
NextRerun ==
    \/ NextExport
    \/ Rerun

Spec == Init /\ [][Next]_vars

SpecRerun == InitExport /\ [][NextRerun]_vars

SpecImport == InitImport /\ [][NextImport]_vars

SpecKeys == InitKeys /\ [][KeyStep]_vars

\* ------------------------------------------------------------------------
\* Vocabulary of the properties
\* ------------------------------------------------------------------------
ExportSucceeded == ~reverse /\ pc = "exit" /\ outcome = "ok"

RoundTripEnded == reverse /\ runs = 1 /\ pc = "exit"

ImportSucceeded == reverse /\ pc = "exit" /\ outcome = "ok"

Failed == pc = "exit" /\ outcome \in {"io_error", "parse_error", "panic"}

\* the entries of the canonical input, each with its base-language text
InputEntries(file) ==
    {WithBase(s, file.translations[s]) : s \in DOMAIN file.translations}

NoDuplicateBase(file) ==
    \A s, t \in DOMAIN file.translations :
        WithBase(s, file.translations[s])[en] = WithBase(t, file.translations[t])[en] => s = t

NoEmptyTranslation(file) ==
    \A e \in InputEntries(file) : \A l \in DOMAIN e : e[l] # Empty

NonBase(e) == [l \in DOMAIN e \ {en} |-> e[l]]

\* decode of a sparse key: the number written after k_
RECURSIVE DigitsValue(_)
DigitsValue(d) ==
    IF Len(d) = 0 THEN 0
    ELSE 10 * DigitsValue(SubSeq(d, 1, Len(d) - 1)) + (d[Len(d)] - Zero)

KeyIndex(k) == DigitsValue(SubSeq(k, Len(KeyPrefix) + 1, Len(k)))

IndexDigits(k) == Len(k) - Len(KeyPrefix)

\* the language code of a file name tr_<code>.json
LangKeyStripped(f) == SubSeq(f, Len(TrPrefix) + 1, Len(f) - Len(JsonSuffix))

\* ------------------------------------------------------------------------
\* C1: round trip. For an input without duplicate base text and without
\* empty translations, export followed by import of the written files
\* succeeds and gives back the same base sentences, each with the same
\* non-base (language -> translation) pairs. It is stated for the inputs
\* whose Languages section lists en and every code the entries use, and for
\* runs in which no file operation fails: the cases most in the code's favour.
\* ------------------------------------------------------------------------
AllCodesListed(file) ==
    /\ en \in file.languages
    /\ \A e \in InputEntries(file) : DOMAIN e \subseteq file.languages

C1_RoundTrip ==
    (RoundTripEnded /\ outcome # "io_error" /\ AllCodesListed(input)
        /\ NoDuplicateBase(input) /\ NoEmptyTranslation(input))
    => /\ outcome = "ok"
       /\ out.valid
       /\ DOMAIN out.translations = {e[en] : e \in InputEntries(input)}
       /\ \A e \in InputEntries(input) : out.translations[e[en]] = NonBase(e)

\* ------------------------------------------------------------------------
\* C2: key uniformity. All keys of one export have the same length and the
\* key of a smaller index sorts strictly before the key of a larger one.
\* ------------------------------------------------------------------------
C2_KeyUniformity ==
    \A x, y \in 1..Len(kkeys) :
        /\ Len(kkeys[x]) = Len(kkeys[y])
        /\ x < y => StrLess(kkeys[x], kkeys[y])

C2_Witness ==
    /\ pc = "keys"
    /\ kn = 12
    /\ ki = kn
    /\ KeyIndex(kkeys[3]) = 2
    /\ KeyIndex(kkeys[11]) = 10

\* ------------------------------------------------------------------------
\* C3: key width. The index part of every key has as many digits as the
\* largest valid index N-1 (at least one).
\* ------------------------------------------------------------------------
C3_KeyWidth ==
    \A x \in 1..Len(kkeys) : IndexDigits(kkeys[x]) = Len(to_string(Max(kn - 1, 0)))

\* ------------------------------------------------------------------------
\* C4: sparsity. A translation absent for (entry, language) is written as
\* the empty text in that language's file; after an import no entry holds
\* an empty value, and a language whose value at the entry's key is absent
\* or empty is left out of the entry's map.
\* ------------------------------------------------------------------------
C4_AbsentWrittenEmpty ==
    (~reverse /\ pc \in {"fwd_langs", "exit"}) =>
        \A l \in LangCodes :
            (FileName(l) \in DOMAIN sink /\ sink[FileName(l)].valid) =>
                \A x \in 1..Len(sentences) :
                    l \notin DOMAIN sentences[x] =>
                        \E k \in DOMAIN sink[FileName(l)].kv :
                            /\ KeyIndex(k) = x - 1
                            /\ sink[FileName(l)].kv[k] = Empty

\* key is the key whose en word ends up as the entry (the last one holding it)
DecidesEntry(lf, key) ==
    \A k \in DOMAIN lf[en] : (lf[en][k] = lf[en][key] /\ k # key) => StrLess(k, key)

C4_NoEmptyImported ==
    ImportSucceeded =>
        /\ \A s \in DOMAIN out.translations :
               \A l \in DOMAIN out.translations[s] : out.translations[s][l] # Empty
        /\ \A key \in DOMAIN langFiles[en] : \A l \in DOMAIN langFiles \ {en} :
               (/\ DecidesEntry(langFiles, key)
                /\ \/ key \notin DOMAIN langFiles[l]
                   \/ langFiles[l][key] = Empty)
               => l \notin DOMAIN out.translations[langFiles[en][key]]

\* C4: absent translations are written empty and nothing empty is imported
C4_Sparsity == C4_AbsentWrittenEmpty /\ C4_NoEmptyImported

\* an entry without fr went through export and import and has no fr, while
\* another entry kept its fr translation
C4_Witness ==
    /\ RoundTripEnded
    /\ outcome = "ok"
    /\ FileName(fr) \in DOMAIN sink
    /\ \E k \in DOMAIN sink[FileName(fr)].kv : sink[FileName(fr)].kv[k] = Empty
    /\ \E s, t \in DOMAIN input.translations :
         /\ fr \notin DOMAIN input.translations[s]
         /\ fr \in DOMAIN input.translations[t]
         /\ s \in DOMAIN out.translations
         /\ t \in DOMAIN out.translations
         /\ fr \notin DOMAIN out.translations[s]
         /\ fr \in DOMAIN out.translations[t]

\* ------------------------------------------------------------------------
\* C5: determinism. Exporting the same canonical file twice writes the same
\* per-language files, whatever the enumeration order of the maps.
\* ------------------------------------------------------------------------
C5_Determinism ==
    (ExportSucceeded /\ runs = 2) => sink = firstSink

\* ------------------------------------------------------------------------
\* C6: missing base language. An import of a directory without a file for
\* en ends in a 'missing base language' error of its own, not in a crash,
\* and writes no canonical file.
\* ------------------------------------------------------------------------
Discovered == {lang_key(f) : f \in {g \in DOMAIN sink : is_lang_file(g)}}

C6_MissingBaseIsTypedError ==
    (reverse /\ pc = "exit" /\ en \notin Discovered
        /\ outcome \notin {"io_error", "parse_error"})
    => /\ outcome = "missing_base_language"
       /\ ~out.exists

\* ------------------------------------------------------------------------
\* C7: export coverage. A successful export of N entries writes one file
\* per language code and every file has exactly N keys, one per index
\* 0..N-1, each holding the entry's text for the language or the empty text.
\* ------------------------------------------------------------------------
FullFile(l) ==
    LET kv == sink[FileName(l)].kv
        N  == Cardinality(DOMAIN input.translations)
    IN  /\ sink[FileName(l)].valid
        /\ Len(sentences) = N
        /\ Cardinality(DOMAIN kv) = N
        /\ {KeyIndex(k) : k \in DOMAIN kv} = 0..(N - 1)
        /\ \A k \in DOMAIN kv :
              LET e == sentences[KeyIndex(k) + 1]
              IN  /\ e \in InputEntries(input)
                  /\ kv[k] = IF l \in DOMAIN e THEN e[l] ELSE Empty

C8_AllOrNothing ==
    Failed => IF reverse THEN ~out.exists ELSE sink = EmptyDir

\* ------------------------------------------------------------------------
\* C9: the two-file scenario. tr_en.json = {k_0: Hello, k_1: World} and
\* tr_fr.json = {k_0: Bonjour, k_1: ""} import to Translations =
\* {Hello: {fr: Bonjour}, World: {}} and Languages with the two codes.
\* ------------------------------------------------------------------------
K0 == <<107, 95, 48>>

K1 == <<107, 95, 49>>

ScenarioDir ==
    (FileName(en) :> ValidFile(K0 :> Hello @@ K1 :> World))
    @@ (FileName(fr) :> ValidFile(K0 :> Bonjour @@ K1 :> Empty))

ScenarioTranslations == (Hello :> (fr :> Bonjour)) @@ (World :> <<>>)

ScenarioImported == ImportSucceeded /\ sink = ScenarioDir

\* C9 as claimed: fr is shown as "French (Unofficial)"
C9_ScenarioFrench ==
    ScenarioImported =>
        /\ out.valid
        /\ out.translations = ScenarioTranslations
        /\ out.languages = (en :> "English") @@ (fr :> "French (Unofficial)")

\* C9 as amended: fr is not in the table and is shown as "LANG_STUB"
C9_ScenarioStub ==
    ScenarioImported =>
        /\ out.valid
        /\ out.translations = ScenarioTranslations
        /\ out.languages = (en :> "English") @@ (fr :> "LANG_STUB")

C9_Witness == ScenarioImported /\ out.valid

\* ------------------------------------------------------------------------
\* C10: duplicate base sentences. When several keys of the base file hold
\* the same text, the import does not fail for it and the single entry of
\* that text holds exactly the non-empty translations found at the last of
\* those keys in the other language files.
\* ------------------------------------------------------------------------
BaseFile == sink[FileName(en)].kv

OtherLangFiles == {f \in DOMAIN sink : is_lang_file(f) /\ f # FileName(en)}

HasEarlierDuplicate(k2) ==
    \E k1 \in DOMAIN BaseFile : StrLess(k1, k2) /\ BaseFile[k1] = BaseFile[k2]

IsLastOfItsText(k2) ==
    \A k \in DOMAIN BaseFile : BaseFile[k] = BaseFile[k2] => (k = k2 \/ StrLess(k, k2))

FoundAt(k) ==
    LET with == {f \in OtherLangFiles : k \in DOMAIN sink[f].kv /\ sink[f].kv[k] # Empty}
    IN  [l \in {LangKeyStripped(f) : f \in with} |-> sink[FileName(l)].kv[k]]

C10_LaterKeyOverwrites ==
    /\ (reverse /\ runs = 0 /\ outcome = "panic") => FileName(en) \notin DOMAIN sink
    /\ (ImportSucceeded /\ runs = 0) =>
          \A k2 \in DOMAIN BaseFile :
              (HasEarlierDuplicate(k2) /\ IsLastOfItsText(k2)) =>
                  /\ BaseFile[k2] \in DOMAIN out.translations
                  /\ out.translations[BaseFile[k2]] = FoundAt(k2)

\* Hello at k_0 with a French word, Hello again at k_1 without: none survives
C10_Witness ==
    /\ ImportSucceeded
    /\ runs = 0
    /\ BaseFile = (K0 :> Hello @@ K1 :> Hello)
    /\ FileName(fr) \in DOMAIN sink
    /\ sink[FileName(fr)].kv = (K0 :> Bonjour @@ K1 :> Empty)
    /\ out.translations = (Hello :> <<>>)

====
